---- MODULE Spec2Model ----
(***************************************************************************)
(* A model of the BitTorrent client core of this repository:               *)
(*   - Torrent::download_piece / Torrent::download_all  (src/src/torrent.rs) *)
(*   - Message / MessageFramer                     (src/src/peer_message.rs) *)
(*   - the pure functions of torrent.rs, tracker.rs and bendecoder.rs,     *)
(*     each applied to inputs drawn from bounded sets                      *)
(*                                                                         *)
(* Byte strings that carry file content (blocks, piece buffers, the file   *)
(* buffer) are kept run-length encoded: a sequence of runs                 *)
(* [piece, begin, len], each standing for the len bytes of the peer's      *)
(* piece `piece` from offset `begin` on (piece = -1: bytes that are not    *)
(* the peer's file content).  Appending is concatenation of run sequences; *)
(* the length of a buffer is the sum of its runs' lengths.  Protocol bytes *)
(* (length prefixes, tags, request payloads) are literal bytes 0..255.     *)
(***************************************************************************)
EXTENDS Integers, Sequences, FiniteSets, TLC

VARIABLES
    info,             \* the metainfo: [length, piece_length, piece_count]
    call,             \* the entry point in progress: "all" or "piece"
    pc,               \* position of the download task
    i,                \* download_all: loop index
    file,             \* download_all: the file buffer
    result,           \* what the entry point returned, once it has
    piece_index,      \* download_piece: its argument
    block_index,      \* download_piece: local
    block_length,     \* download_piece: local
    remaining_bytes,  \* download_piece: local
    piece_data,       \* download_piece: the piece buffer
    sent,             \* messages written to the current connection, in order
    rx,               \* outcome of the last peer.next() on the connection
    stream,           \* the read half of the connection: "open", "errored", "eof"
    nPieceRx,         \* Piece messages received in answer to a Request on this connection
    discarded,        \* messages dropped by the unchoke loop on this connection
    honest,           \* history: the peer and the transport have cooperated so far
    wire,             \* MessageFramer: bytes the peer has written that have not arrived
    nFrames,          \* MessageFramer: frames the peer has written
    src,              \* MessageFramer: the read buffer (bytes)
    before,           \* MessageFramer: the buffer the last decode was called on
    out,              \* MessageFramer: what the last decode returned, and the buffer it left
    fn,               \* a function on its own: the function that is called
    arg,              \* a function on its own: its input
    ret               \* a function on its own: what it returned, once it has

dlvars == <<info, call, pc, i, file, result, piece_index, block_index,
            block_length, remaining_bytes, piece_data, sent, rx, stream,
            nPieceRx, discarded, honest>>
cvars == <<fn, arg, ret>>
frvars == <<wire, nFrames, src, before, out, cvars>>
vars == <<dlvars, frvars>>

-----------------------------------------------------------------------------
(* Bounds of the model. *)

\* non-Unchoke outcomes the unchoke loop is followed through
MaxDiscard == 2

\* frames the peer writes to one connection
MaxFrames == 3

\* whole peers in a tracker's compact peer list
MaxPeers == 2

\* items of a bencoded list, entries of a bencoded dictionary
MaxItems == 2

-----------------------------------------------------------------------------
(* Program constants. *)

\* crate::BLOCK_MAX, 16 KiB (torrent.rs:12 imports it from the crate root)
BLOCK_MAX == 16384

\* peer_message.rs:118
MAX == 65536

Tags == <<"Choke", "Unchoke", "Interested", "NotInterested", "Have",
          "Bitfield", "Request", "Piece", "Cancel">>
TagSet == {Tags[k] : k \in 1..Len(Tags)}

-----------------------------------------------------------------------------
(* Bytes and run-length encoded content. *)

Min(a, b) == IF a < b THEN a ELSE b

\* u32::to_be_bytes
ToBeBytes(n) ==
    << (n \div 16777216) % 256, (n \div 65536) % 256, (n \div 256) % 256, n % 256 >>

\* u32::from_be_bytes
FromBeBytes(b) == b[1] * 16777216 + b[2] * 65536 + b[3] * 256 + b[4]

Run(p, b, l) == IF l > 0 THEN << [piece |-> p, begin |-> b, len |-> l] >> ELSE << >>

RECURSIVE ByteLen(_)
ByteLen(runs) ==
    IF runs = << >> THEN 0 ELSE Head(runs).len + ByteLen(Tail(runs))

\* Vec<u8>::len of a payload: literal bytes followed by content runs
PayloadLen(payload) == Len(payload.bytes) + ByteLen(payload.block)

RECURSIVE DropRuns(_, _)
\* runs[n..] for n <= ByteLen(runs)
DropRuns(runs, n) ==
    IF n = 0 \/ runs = << >> THEN runs
    ELSE IF Head(runs).len <= n THEN DropRuns(Tail(runs), n - Head(runs).len)
    ELSE Run(Head(runs).piece, Head(runs).begin + n, Head(runs).len - n) \o Tail(runs)

\* payload[n..] for n <= payload.len(), as content runs (literal bytes that
\* remain are bytes that are not file content)
SliceFrom(payload, n) ==
    IF n <= Len(payload.bytes)
    THEN Run(-1, 0, Len(payload.bytes) - n) \o payload.block
    ELSE DropRuns(payload.block, n - Len(payload.bytes))

-----------------------------------------------------------------------------
(* Messages (peer_message.rs). *)

Message(tag, bytes, block) ==
    [tag |-> tag, payload |-> [bytes |-> bytes, block |-> block]]

new_request(index, begin, length) ==
    Message("Request", ToBeBytes(index) \o ToBeBytes(begin) \o ToBeBytes(length), << >>)

\* the fields of a Request payload, read back by the peer
RequestIndex(m)  == FromBeBytes(SubSeq(m.payload.bytes, 1, 4))
RequestBegin(m)  == FromBeBytes(SubSeq(m.payload.bytes, 5, 8))
RequestLength(m) == FromBeBytes(SubSeq(m.payload.bytes, 9, 12))

Requests(msgs) == SelectSeq(msgs, LAMBDA m : m.tag = "Request")

\* Message::read_block, peer_message.rs:108-114: Ok(payload[9..]) of a Piece,
\* a slice that panics on a payload of fewer than 9 bytes; an error for any
\* other tag
read_block(m) ==
    IF m.tag = "Piece"
    THEN IF PayloadLen(m.payload) < 9 THEN [kind |-> "panic", bytes |-> << >>]
         ELSE [kind |-> "ok", bytes |-> SliceFrom(m.payload, 9)]
    ELSE [kind |-> "err", bytes |-> << >>]

-----------------------------------------------------------------------------
(* The peer and the transport: what a read of the connection can deliver.  *)

\* the Piece message that answers request r with the requested bytes
GoodPiece(r) ==
    Message("Piece", ToBeBytes(RequestIndex(r)) \o ToBeBytes(RequestBegin(r)),
            Run(RequestIndex(r), RequestBegin(r), RequestLength(r)))

\* Piece messages a peer may send for request r: the requested block, a block one
\* byte short, a block of the right size with other bytes, and a payload that
\* stops inside the 8-byte index|begin header
PieceMessages(r) ==
    { GoodPiece(r),
      Message("Piece", ToBeBytes(RequestIndex(r)) \o ToBeBytes(RequestBegin(r)),
              Run(RequestIndex(r), RequestBegin(r), RequestLength(r) - 1)),
      Message("Piece", ToBeBytes(RequestIndex(r)) \o ToBeBytes(RequestBegin(r)),
              Run(-1, 0, RequestLength(r))),
      Message("Piece", ToBeBytes(RequestIndex(r)), << >>) }

\* the request a Piece message would answer: the last one sent, or, before any
\* request, one for the first byte of the piece
PendingRequest ==
    IF Requests(sent) = << >> THEN new_request(piece_index, 0, 1)
    ELSE Requests(sent)[Len(Requests(sent))]

PeerMessages ==
    { Message(t, << >>, << >>) : t \in TagSet \ {"Piece"} } \cup PieceMessages(PendingRequest)

\* Framed::next(): Some(Ok(msg)), Some(Err(e)) or None.  A stream that has ended
\* stays ended; one that has failed delivers no further message.
ReadOutcomes ==
    CASE stream = "open" ->
            { [kind |-> "msg", msg |-> m] : m \in PeerMessages }
            \cup { [kind |-> "err"], [kind |-> "none"] }
      [] stream = "errored" -> { [kind |-> "err"], [kind |-> "none"] }
      [] OTHER -> { [kind |-> "none"] }

StreamAfter(o) ==
    CASE o.kind = "msg" -> stream
      [] o.kind = "err" -> "errored"
      [] OTHER -> IF stream = "errored" THEN "errored" ELSE "eof"

\* what rx records of an outcome
RxOf(o) == IF o.kind = "msg" THEN o.msg.tag ELSE o.kind

IsMsg(o, tag) == o.kind = "msg" /\ o.msg.tag = tag

-----------------------------------------------------------------------------
(* The metainfo (torrent.rs, struct Info). *)

\* length, piece length and pieces.len() / 20 are three independent fields of
\* the file; the last one of these does not satisfy
\* piece_count = ceil(length / piece_length)
Metainfos ==
    { [length |-> 1000,  piece_length |-> 400,   piece_count |-> 3],
      [length |-> 900,   piece_length |-> 300,   piece_count |-> 3],
      [length |-> 600,   piece_length |-> 400,   piece_count |-> 2],
      [length |-> 40000, piece_length |-> 32768, piece_count |-> 2],
      [length |-> 50000, piece_length |-> 50000, piece_count |-> 1],
      [length |-> 1000,  piece_length |-> 400,   piece_count |-> 2] }

\* the last piece's length without the case of an exact multiple
ExpectedLength_NoZeroCase(index) ==
    IF index < info.piece_count - 1
    THEN info.piece_length
    ELSE info.length % info.piece_length

\* torrent.rs:192-203, the initial value of remaining_bytes
ExpectedLength(index) ==
    IF index < info.piece_count - 1
    THEN info.piece_length
    ELSE LET last_len == info.length % info.piece_length
         IN  IF last_len = 0 THEN info.piece_length ELSE last_len

-----------------------------------------------------------------------------
(* MessageFramer (peer_message.rs:116-227). *)

\* MessageTag::try_from(u8), peer_message.rs:27-44: Err("invalid tag") is
\* "invalid"
TryFrom(value) ==
    CASE value = 0 -> "Choke"
      [] value = 1 -> "Unchoke"
      [] value = 2 -> "Interested"
      [] value = 3 -> "NotInterested"
      [] value = 4 -> "Have"
      [] value = 5 -> "Bitfield"
      [] value = 6 -> "Request"
      [] value = 7 -> "Piece"
      [] value = 8 -> "Cancel"
      [] OTHER -> "invalid"

\* a conversion that falls back to a tag for a byte that is none
TagOfByte_Default(b) == IF b \in 0..8 THEN Tags[b + 1] ELSE "Choke"

\* MessageTag::try_from and the match of peer_message.rs:169-185: the tag of a
\* byte, "invalid" for a byte that is no tag
TagOfByte(b) == IF b \in 0..8 THEN Tags[b + 1] ELSE "invalid"

\* the value decode returns, with the buffer it leaves and the space it asked
\* src.reserve for
Decoded(kind, msg, rest, reserved) ==
    [kind |-> kind, msg |-> msg, rest |-> rest, reserved |-> reserved]

NoMessage == Message("none", << >>, << >>)
NoDecode == Decoded("nothing", NoMessage, << >>, 0)

\* a payload that runs to the end of the buffer
PayloadOf_ToEnd(buf, length) == SubSeq(buf, 6, Len(buf))

\* peer_message.rs:188-192: the payload of the frame at the head of buf
PayloadOf(buf, length) == IF Len(buf) > 5 THEN SubSeq(buf, 6, 4 + length) ELSE << >>

\* a decode that returns after a keep-alive instead of decoding what follows
Decode_OneKeepAlive(buf) ==
    IF Len(buf) < 4 THEN Decoded("none", NoMessage, buf, 0)
    ELSE LET length == FromBeBytes(SubSeq(buf, 1, 4))
         IN  IF length = 0 THEN Decoded("none", NoMessage, SubSeq(buf, 5, Len(buf)), 0)
             ELSE IF Len(buf) < 5 THEN Decoded("none", NoMessage, buf, 0)
             ELSE IF length > MAX THEN Decoded("err", NoMessage, buf, 0)
             ELSE IF Len(buf) < 4 + length
                  THEN Decoded("none", NoMessage, buf, 4 + length - Len(buf))
             ELSE IF TagOfByte(buf[5]) = "invalid" THEN Decoded("err", NoMessage, buf, 0)
             ELSE Decoded("msg", Message(TagOfByte(buf[5]), PayloadOf(buf, length), << >>),
                          SubSeq(buf, 4 + length + 1, Len(buf)), 0)

RECURSIVE Decode_DropsPartial(_)
\* a decode that drops the bytes of a frame that has not arrived whole
Decode_DropsPartial(buf) ==
    IF Len(buf) < 4 THEN Decoded("none", NoMessage, buf, 0)
    ELSE LET length == FromBeBytes(SubSeq(buf, 1, 4))
         IN  IF length = 0 THEN Decode_DropsPartial(SubSeq(buf, 5, Len(buf)))
             ELSE IF Len(buf) < 5 THEN Decoded("none", NoMessage, buf, 0)
             ELSE IF length > MAX THEN Decoded("err", NoMessage, buf, 0)
             ELSE IF Len(buf) < 4 + length
                  THEN Decoded("none", NoMessage, << >>, 4 + length - Len(buf))
             ELSE IF TagOfByte(buf[5]) = "invalid" THEN Decoded("err", NoMessage, buf, 0)
             ELSE Decoded("msg", Message(TagOfByte(buf[5]), PayloadOf(buf, length), << >>),
                          SubSeq(buf, 4 + length + 1, Len(buf)), 0)

RECURSIVE Decode(_)
\* MessageFramer::decode, peer_message.rs:124-199
Decode(buf) ==
    IF Len(buf) < 4 THEN Decoded("none", NoMessage, buf, 0)
    ELSE LET length == FromBeBytes(SubSeq(buf, 1, 4))
         IN  IF length = 0 THEN Decode(SubSeq(buf, 5, Len(buf)))
             ELSE IF Len(buf) < 5 THEN Decoded("none", NoMessage, buf, 0)
             ELSE IF length > MAX THEN Decoded("err", NoMessage, buf, 0)
             ELSE IF Len(buf) < 4 + length
                  THEN Decoded("none", NoMessage, buf, 4 + length - Len(buf))
             ELSE IF TagOfByte(buf[5]) = "invalid" THEN Decoded("err", NoMessage, buf, 0)
             ELSE Decoded("msg", Message(TagOfByte(buf[5]), PayloadOf(buf, length), << >>),
                          SubSeq(buf, 4 + length + 1, Len(buf)), 0)

\* frames a peer may write: a keep-alive, messages with payloads of 0, 1 and 2
\* bytes, a frame with an unknown tag, a frame of MAX bytes (of which the peer
\* writes only the head), and the head of a frame of MAX + 1 bytes
PeerFrames ==
    { << 0, 0, 0, 0 >>,
      << 0, 0, 0, 1, 1 >>,
      << 0, 0, 0, 2, 4, 0 >>,
      << 0, 0, 0, 3, 7, 0, 5 >>,
      << 0, 0, 0, 1, 9 >>,
      << 0, 1, 0, 0, 7 >>,
      << 0, 1, 0, 1, 7 >> }

\* the peer writes one more frame to the connection
PeerWrite ==
    /\ nFrames < MaxFrames
    /\ \E f \in PeerFrames : wire' = wire \o f
    /\ nFrames' = nFrames + 1
    /\ UNCHANGED <<src, before, out>>
    /\ UNCHANGED <<dlvars, cvars>>

\* torrent.rs:167, the Framed stream: a read of the socket appends the next n
\* bytes that arrived to the buffer
Arrive ==
    /\ \E n \in 1..Len(wire) :
          /\ src' = src \o SubSeq(wire, 1, n)
          /\ wire' = SubSeq(wire, n + 1, Len(wire))
    /\ UNCHANGED <<nFrames, before, out>>
    /\ UNCHANGED <<dlvars, cvars>>

\* torrent.rs:167, the Framed stream: decode is called on the buffer
DecodeCall ==
    /\ before' = src
    /\ out' = Decode(src)
    /\ src' = Decode(src).rest
    /\ UNCHANGED <<wire, nFrames>>
    /\ UNCHANGED <<dlvars, cvars>>

\* `item.tag as u8`, peer_message.rs:223
TagByte(tag) == CHOOSE b \in 0..8 : Tags[b + 1] = tag

\* what encode returns, with the destination buffer it leaves
Encoded(kind, dst) == [kind |-> kind, dst |-> dst]

\* an encode that counts the 4 bytes of the length prefix into the limit
Encode_LimitOnFrame(item, dst) ==
    IF PayloadLen(item.payload) + 1 + 4 > MAX THEN Encoded("err", dst)
    ELSE Encoded("ok", dst \o ToBeBytes(PayloadLen(item.payload) + 1)
                           \o << TagByte(item.tag) >> \o item.payload.bytes)

\* an encode whose length prefix leaves out the tag byte
Encode_PayloadLength(item, dst) ==
    IF PayloadLen(item.payload) + 1 > MAX THEN Encoded("err", dst)
    ELSE Encoded("ok", dst \o ToBeBytes(PayloadLen(item.payload))
                           \o << TagByte(item.tag) >> \o item.payload.bytes)

\* MessageFramer::encode, peer_message.rs:205-226, for an item whose payload
\* is literal bytes
Encode(item, dst) ==
    IF PayloadLen(item.payload) + 1 > MAX THEN Encoded("err", dst)
    ELSE Encoded("ok", dst \o ToBeBytes(PayloadLen(item.payload) + 1)
                           \o << TagByte(item.tag) >> \o item.payload.bytes)

-----------------------------------------------------------------------------
(* The info hash and the handshake (torrent.rs:24, 56-87, 107-150). *)

\* torrent.rs:24, b"00112233445566778899"
PEER_ID == << 48, 48, 49, 49, 50, 50, 51, 51, 52, 52,
             53, 53, 54, 54, 55, 55, 56, 56, 57, 57 >>

\* torrent.rs:120, b"BitTorrent protocol"
ProtocolName == << 66, 105, 116, 84, 111, 114, 114, 101, 110, 116, 32,
                   112, 114, 111, 116, 111, 99, 111, 108 >>

\* the digits hex::encode writes
HexDigits == << "0", "1", "2", "3", "4", "5", "6", "7",
                "8", "9", "a", "b", "c", "d", "e", "f" >>

\* hex::encode: two digits for each byte, the high half first
HexEncode(bytes) ==
    [k \in 1..(2 * Len(bytes)) |->
        IF k % 2 = 1 THEN HexDigits[(bytes[(k + 1) \div 2] \div 16) + 1]
                     ELSE HexDigits[(bytes[k \div 2] % 16) + 1]]

\* Torrent::info_hash_hex, torrent.rs:56-63, of an info dictionary whose
\* SHA-1 digest is `digest`
info_hash_hex(digest) == HexEncode(digest)

\* Torrent::info_hash_bytes, torrent.rs:65-73
info_hash_bytes(digest) == digest

RECURSIVE UrlLoop_OddPositions(_, _, _)
\* a loop that writes '%' before the second digit of each pair
UrlLoop_OddPositions(hash, k, urlencoded) ==
    IF k >= Len(hash) THEN urlencoded
    ELSE UrlLoop_OddPositions(hash, k + 1,
                 IF k % 2 = 1 THEN urlencoded \o << "%", hash[k + 1] >>
                              ELSE urlencoded \o << hash[k + 1] >>)

RECURSIVE UrlLoop(_, _, _)
\* the loop of torrent.rs:80-85 from the char of index k (0-based) on
UrlLoop(hash, k, urlencoded) ==
    IF k >= Len(hash) THEN urlencoded
    ELSE UrlLoop(hash, k + 1,
                 IF k % 2 = 0 THEN urlencoded \o << "%", hash[k + 1] >>
                              ELSE urlencoded \o << hash[k + 1] >>)

\* Torrent::info_hash_urlencoded, torrent.rs:75-87
info_hash_urlencoded(digest) == UrlLoop(info_hash_hex(digest), 0, << >>)

\* a handshake with the peer id before the info hash
HandshakeMessage_PeerIdFirst(digest, peer_id) ==
    << 19 >> \o ProtocolName \o << 0, 0, 0, 0, 0, 0, 0, 0 >>
             \o peer_id \o info_hash_bytes(digest)

\* the message make_handshake builds, torrent.rs:113-137
HandshakeMessage(digest, peer_id) ==
    << 19 >> \o ProtocolName \o << 0, 0, 0, 0, 0, 0, 0, 0 >>
             \o info_hash_bytes(digest) \o peer_id

\* Torrent::make_handshake, torrent.rs:107-141: write_all gets `wrote` bytes
\* of the message through and returns Ok when these are all of them
make_handshake(digest, peer_id, wrote) ==
    LET message == HandshakeMessage(digest, peer_id)
    IN  [kind |-> IF wrote >= Len(message) THEN "ok" ELSE "err",
         written |-> SubSeq(message, 1, Min(wrote, Len(message)))]

\* Torrent::peer_handshake, torrent.rs:143-150, with a peer that accepts the
\* connection or not, takes `wrote` bytes, and sends `reply` before it closes
peer_handshake(digest, connects, wrote, reply) ==
    IF ~connects
    THEN [kind |-> "err", written |-> << >>, read |-> 0, peer_id |-> << >>]
    ELSE LET hs == make_handshake(digest, PEER_ID, wrote)
         IN  IF hs.kind = "err"
             THEN [kind |-> "err", written |-> hs.written, read |-> 0, peer_id |-> << >>]
             ELSE IF Len(reply) < 68
             THEN [kind |-> "err", written |-> hs.written, read |-> Len(reply),
                   peer_id |-> << >>]
             ELSE [kind |-> "ok", written |-> hs.written, read |-> 68,
                   peer_id |-> HexEncode(SubSeq(SubSeq(reply, 1, 68), 49, 68))]

-----------------------------------------------------------------------------
(* The tracker's compact peer list (tracker.rs:21-31). *)

\* Peer(SocketAddrV4::new(Ipv4Addr::new(a, b, c, d), port))
Peer(a, b, c, d, port) == [addr |-> << a, b, c, d >>, port |-> port]

\* what all_peers returns; a panic returns nothing
PeersResult(kind, peers) == [kind |-> kind, peers |-> peers]

RECURSIVE AllPeersLoop(_, _)
\* the loop of tracker.rs:24-28 over the chunks of `bytes`: chunks(6) gives
\* chunks of 6 bytes and a last one of what remains; chunk_6[k] of a chunk
\* that has no byte k panics
AllPeersLoop(bytes, peers) ==
    IF bytes = << >> THEN PeersResult("ok", peers)
    ELSE LET chunk_6 == SubSeq(bytes, 1, Min(6, Len(bytes)))
         IN  IF Len(chunk_6) < 6 THEN PeersResult("panic", << >>)
             ELSE AllPeersLoop(SubSeq(bytes, Len(chunk_6) + 1, Len(bytes)),
                      Append(peers, Peer(chunk_6[1], chunk_6[2], chunk_6[3], chunk_6[4],
                                         chunk_6[5] * 256 + chunk_6[6])))

\* TrackerResponse::all_peers, tracker.rs:22-30
all_peers(bytes) == AllPeersLoop(bytes, << >>)

-----------------------------------------------------------------------------
(* decode_bencoded_value (bendecoder.rs:46-106).  A &str is a sequence of   *)
(* chars; the inputs are ASCII, so that a char is a byte.                   *)

\* enum Bencode, bendecoder.rs:7-12; a BTreeMap<String, Bencode> is a
\* function from its keys to their values
BString(s) == [type |-> "String", s |-> s]
BInteger(n) == [type |-> "Integer", n |-> n]
BList(items) == [type |-> "List", items |-> items]
BDictionary(map) == [type |-> "Dictionary", map |-> map]
BNone == [type |-> "None"]

\* what a call of decode_bencoded_value comes to: it returns (value, rest),
\* it panics, or it never returns
Returned(value, rest) == [kind |-> "ok", value |-> value, rest |-> rest]
Panicked == [kind |-> "panic", value |-> BNone, rest |-> << >>]
Hangs == [kind |-> "hang", value |-> BNone, rest |-> << >>]

DigitChars == << "0", "1", "2", "3", "4", "5", "6", "7", "8", "9" >>
IsDigit(c) == \E d \in 1..10 : DigitChars[d] = c
DigitValue(c) == (CHOOSE d \in 1..10 : DigitChars[d] = c) - 1

\* text is one decimal digit or more
IsDigits(text) == text # << >> /\ \A k \in 1..Len(text) : IsDigit(text[k])

RECURSIVE DigitsValue(_)
DigitsValue(text) ==
    IF text = << >> THEN 0
    ELSE 10 * DigitsValue(SubSeq(text, 1, Len(text) - 1)) + DigitValue(text[Len(text)])

\* str::parse::<i64>, bendecoder.rs:58 (texts short enough not to overflow):
\* digits, with a sign before them or none
ParseI64(text) ==
    IF IsDigits(text) THEN [ok |-> TRUE, n |-> DigitsValue(text)]
    ELSE IF Len(text) >= 2 /\ text[1] = "+" /\ IsDigits(Tail(text))
    THEN [ok |-> TRUE, n |-> DigitsValue(Tail(text))]
    ELSE IF Len(text) >= 2 /\ text[1] = "-" /\ IsDigits(Tail(text))
    THEN [ok |-> TRUE, n |-> 0 - DigitsValue(Tail(text))]
    ELSE [ok |-> FALSE, n |-> 0]

\* str::parse::<usize>, bendecoder.rs:98: digits, with a '+' before them or
\* none
ParseUsize(text) ==
    IF IsDigits(text) THEN [ok |-> TRUE, n |-> DigitsValue(text)]
    ELSE IF Len(text) >= 2 /\ text[1] = "+" /\ IsDigits(Tail(text))
    THEN [ok |-> TRUE, n |-> DigitsValue(Tail(text))]
    ELSE [ok |-> FALSE, n |-> 0]

\* str::split_once(c): the position of the first c in text, 0 for none
Find(text, c) ==
    IF \E k \in 1..Len(text) : text[k] = c
    THEN CHOOSE k \in 1..Len(text) : text[k] = c /\ \A j \in 1..(k - 1) : text[j] # c
    ELSE 0

\* BTreeMap::insert: the value of an equal key is replaced
Insert(map, key, value) ==
    [k \in (DOMAIN map) \cup {key} |-> IF k = key THEN value ELSE map[k]]

\* the return of a list that keeps the closing 'e' in the remainder
ListReturn_KeepEnd(values, rest) == Returned(BList(values), rest)

\* bendecoder.rs:74, return (Bencode::List(values), &rest[1..]): the slice
\* panics on an empty rest
ListReturn(values, rest) ==
    IF rest = << >> THEN Panicked ELSE Returned(BList(values), Tail(rest))

RECURSIVE decode_bencoded_value(_)
RECURSIVE ListLoop(_, _)
RECURSIVE DictLoop(_, _)

\* the while loop of bendecoder.rs:69-73 and the return that follows it
ListLoop(rest, values) ==
    IF rest # << >> /\ rest[1] # "e"
    THEN LET v == decode_bencoded_value(rest)
         IN  IF v.kind # "ok" THEN v
             ELSE ListLoop(v.rest, Append(values, v.value))
    ELSE ListReturn(values, rest)

\* the while loop of bendecoder.rs:80-92 and the return that follows it.  An
\* iteration whose key is no String changes neither `rest` nor `values`
\* (bendecoder.rs:90): the loop condition holds again on the same state, and
\* the loop repeats that iteration without end
DictLoop(rest, values) ==
    IF rest # << >> /\ rest[1] # "e"
    THEN LET key == decode_bencoded_value(rest)
         IN  IF key.kind # "ok" THEN key
             ELSE LET value == decode_bencoded_value(key.rest)
                  IN  IF value.kind # "ok" THEN value
                      ELSE IF key.value.type = "String"
                      THEN DictLoop(value.rest, Insert(values, key.value.s, value.value))
                      ELSE Hangs
    ELSE IF rest = << >> THEN Panicked
    ELSE Returned(BDictionary(values), Tail(rest))

\* decode_bencoded_value, bendecoder.rs:46-106
decode_bencoded_value(encoded_value) ==
    IF encoded_value = << >> THEN Panicked
    ELSE LET bencode_identifier == encoded_value[1]
         IN  IF bencode_identifier = "i"
             THEN LET after == Tail(encoded_value)
                      e == Find(after, "e")
                      n == ParseI64(SubSeq(after, 1, e - 1))
                  IN  IF e # 0 /\ n.ok
                      THEN Returned(BInteger(n.n), SubSeq(after, e + 1, Len(after)))
                      ELSE Panicked
             ELSE IF bencode_identifier = "l"
             THEN ListLoop(Tail(encoded_value), << >>)
             ELSE IF bencode_identifier = "d"
             THEN DictLoop(Tail(encoded_value), << >>)
             ELSE IF IsDigit(bencode_identifier)
             THEN LET colon == Find(encoded_value, ":")
                      len == ParseUsize(SubSeq(encoded_value, 1, colon - 1))
                      rest == SubSeq(encoded_value, colon + 1, Len(encoded_value))
                  IN  IF colon # 0 /\ len.ok
                      THEN IF len.n > Len(rest) THEN Panicked
                           ELSE Returned(BString(SubSeq(rest, 1, len.n)),
                                         SubSeq(rest, len.n + 1, Len(rest)))
                      ELSE Panicked
             ELSE Panicked

-----------------------------------------------------------------------------
(* Results of the entry points. *)

\* a function that has not returned
Pending == [kind |-> "pending"]

NoResult == [kind |-> "none", bytes |-> << >>]
Ok(bytes) == [kind |-> "ok", bytes |-> bytes]
Err == [kind |-> "err", bytes |-> << >>]

\* `?` on an Err inside download_piece: download_piece returns the error, and
\* under download_all the `?` of torrent.rs:241 returns it in turn; the buffers
\* are dropped
Fail ==
    /\ pc' = "Failed"
    /\ result' = Err
    /\ honest' = FALSE

\* a panic unwinds the task: nothing is returned
Panic ==
    /\ pc' = "Panicked"
    /\ honest' = FALSE
    /\ UNCHANGED result

-----------------------------------------------------------------------------
(* Initial state: a torrent has been loaded and one entry point is called. *)

Init ==
    /\ info \in Metainfos
    /\ call \in {"all", "piece"}
    /\ pc = IF call = "all" THEN "AllLoop" ELSE "Discover"
    /\ i = 0
    /\ file = << >>
    /\ result = NoResult
    /\ piece_index \in IF call = "all" THEN {0} ELSE 0..(info.piece_count - 1)
    /\ block_index = 0
    /\ block_length = 0
    /\ remaining_bytes = 0
    /\ piece_data = << >>
    /\ sent = << >>
    /\ rx = "nothing"
    /\ stream = "open"
    /\ nPieceRx = 0
    /\ discarded = 0
    /\ honest = TRUE
    /\ wire = << >>
    /\ nFrames = 0
    /\ src = << >>
    /\ before = << >>
    /\ out = NoDecode
    /\ fn = "none"
    /\ arg = << >>
    /\ ret = Pending

-----------------------------------------------------------------------------
(* Torrent::download_all, torrent.rs:238-246. *)

\* the head of `for i in 0..(pieces.len() / 20)`: call download_piece(i), or
\* leave the loop and return Ok(file)
DownloadAllNext ==
    /\ pc = "AllLoop"
    /\ IF i < info.piece_count
       THEN /\ pc' = "Discover"
            /\ piece_index' = i
            /\ UNCHANGED result
       ELSE /\ pc' = "AllDone"
            /\ result' = Ok(file)
            /\ UNCHANGED piece_index
    /\ UNCHANGED <<info, call, i, file, block_index, block_length, remaining_bytes,
                   piece_data, sent, rx, stream, nPieceRx, discarded, honest>>
    /\ UNCHANGED frvars

\* a piece put in front of the file buffer
Extend_Prepend(buffer, piece) == piece \o buffer

\* torrent.rs:242, file.extend(piece)
Extend(buffer, piece) == buffer \o piece

\* torrent.rs:241-242: download_piece(i) returned Ok(piece): file.extend(piece),
\* next i; the piece, download_piece's locals and its connection are gone
DownloadAllExtend ==
    /\ pc = "PieceDone"
    /\ call = "all"
    /\ file' = Extend(file, piece_data)
    /\ i' = i + 1
    /\ pc' = "AllLoop"
    /\ block_index' = 0
    /\ block_length' = 0
    /\ remaining_bytes' = 0
    /\ piece_data' = << >>
    /\ sent' = << >>
    /\ rx' = "nothing"
    /\ nPieceRx' = 0
    /\ discarded' = 0
    /\ UNCHANGED <<info, call, result, piece_index, stream, honest>>
    /\ UNCHANGED frvars

-----------------------------------------------------------------------------
(* Torrent::download_piece, torrent.rs:152-236. *)

dpLocals == <<block_index, block_length, remaining_bytes, piece_data>>
conn == <<sent, rx, stream, nPieceRx, discarded>>

\* torrent.rs:155-156: the tracker announce; peers.last().expect(..) panics on
\* an empty peer list
DiscoverPeers ==
    /\ pc = "Discover"
    /\ \E r \in {"ok", "err", "nopeers"} :
          CASE r = "ok" -> pc' = "Connecting" /\ UNCHANGED <<result, honest>>
            [] r = "err" -> Fail
            [] OTHER -> Panic
    /\ UNCHANGED <<info, call, i, file, piece_index>>
    /\ UNCHANGED <<dpLocals, conn, frvars>>

\* torrent.rs:158: TcpStream::connect; the connection is new
Connect ==
    /\ pc = "Connecting"
    /\ \E r \in {"ok", "err"} :
          IF r = "ok"
          THEN /\ pc' = "Handshaking"
               /\ sent' = << >>
               /\ rx' = "nothing"
               /\ stream' = "open"
               /\ nPieceRx' = 0
               /\ discarded' = 0
               /\ UNCHANGED <<result, honest>>
          ELSE Fail /\ UNCHANGED conn
    /\ UNCHANGED <<info, call, i, file, piece_index>>
    /\ UNCHANGED <<dpLocals, frvars>>

\* torrent.rs:161-163: write the 68-byte handshake
MakeHandshake ==
    /\ pc = "Handshaking"
    /\ \E r \in {"ok", "err"} :
          IF r = "ok" THEN pc' = "ReadHandshake" /\ UNCHANGED <<result, honest>>
          ELSE Fail
    /\ UNCHANGED <<info, call, i, file, piece_index>>
    /\ UNCHANGED <<dpLocals, conn, frvars>>

\* torrent.rs:164-165: read_exact of the peer's 68 bytes; a shorter stream is
\* an error
ReadHandshake ==
    /\ pc = "ReadHandshake"
    /\ \E r \in {"ok", "err"} :
          IF r = "ok" THEN pc' = "AwaitingBitfield" /\ UNCHANGED <<result, honest>>
          ELSE Fail
    /\ UNCHANGED <<info, call, i, file, piece_index>>
    /\ UNCHANGED <<dpLocals, conn, frvars>>

\* torrent.rs:169-170: one peer.next(); whatever it returns is only logged
ReadBitfield ==
    /\ pc = "AwaitingBitfield"
    /\ \E o \in ReadOutcomes :
          /\ rx' = RxOf(o)
          /\ stream' = StreamAfter(o)
          /\ honest' = (honest /\ IsMsg(o, "Bitfield"))
    /\ pc' = "Interested"
    /\ UNCHANGED <<info, call, i, file, result, piece_index, sent, nPieceRx, discarded>>
    /\ UNCHANGED <<dpLocals, frvars>>

\* torrent.rs:173-178: send Interested
SendInterested ==
    /\ pc = "Interested"
    /\ \E r \in {"ok", "err"} :
          IF r = "ok"
          THEN /\ pc' = "AwaitingUnchoke"
               /\ sent' = Append(sent, Message("Interested", << >>, << >>))
               /\ UNCHANGED <<result, honest>>
          ELSE Fail /\ UNCHANGED sent
    /\ UNCHANGED <<info, call, i, file, piece_index, rx, stream, nPieceRx, discarded>>
    /\ UNCHANGED <<dpLocals, frvars>>

\* a loop that any message ends
UnchokeSeen_AnyMessage(o) == o.kind = "msg"

\* the condition that ends the loop of torrent.rs:181-187
UnchokeSeen(o) == IsMsg(o, "Unchoke")

\* torrent.rs:181-203: one turn of the unchoke loop; on Unchoke, the locals of
\* the request loop are set up
AwaitUnchoke ==
    /\ pc = "AwaitingUnchoke"
    /\ \E o \in ReadOutcomes :
          /\ rx' = RxOf(o)
          /\ stream' = StreamAfter(o)
          /\ IF UnchokeSeen(o)
             THEN /\ pc' = "Requesting"
                  /\ block_index' = 0
                  /\ block_length' = BLOCK_MAX
                  /\ remaining_bytes' = ExpectedLength(piece_index)
                  /\ piece_data' = << >>
                  /\ UNCHANGED <<discarded, honest>>
             ELSE /\ discarded' = Min(discarded + 1, MaxDiscard)
                  /\ honest' = FALSE
                  /\ UNCHANGED pc
                  /\ UNCHANGED dpLocals
    /\ UNCHANGED <<info, call, i, file, result, piece_index, sent, nPieceRx>>
    /\ UNCHANGED frvars

\* a block size that is never cut to what remains
NextBlockLength_NoClamp == block_length

\* torrent.rs:207-209: the size of the next block
NextBlockLength == IF remaining_bytes < block_length THEN remaining_bytes ELSE block_length

\* torrent.rs:214: the begin field of the next request (a u32; the offsets of
\* the metainfos above stay far below 2^32)
NextBegin == block_index * BLOCK_MAX

\* torrent.rs:206-218 and 235: the head of the request loop; with nothing
\* remaining download_piece returns Ok(piece_data), otherwise the next Request
\* is sent
RequestBlock ==
    /\ pc = "Requesting"
    /\ IF remaining_bytes = 0
       THEN /\ pc' = "PieceDone"
            /\ result' = IF call = "piece" THEN Ok(piece_data) ELSE result
            /\ UNCHANGED <<block_length, sent, honest>>
       ELSE /\ block_length' = NextBlockLength
            /\ \E r \in {"ok", "err"} :
                  IF r = "ok"
                  THEN /\ pc' = "AwaitingBlock"
                       /\ sent' = Append(sent, new_request(piece_index, NextBegin,
                                                           NextBlockLength))
                       /\ UNCHANGED <<result, honest>>
                  ELSE Fail /\ UNCHANGED sent
    /\ UNCHANGED <<info, call, i, file, piece_index, block_index, remaining_bytes,
                   piece_data, rx, stream, nPieceRx, discarded>>
    /\ UNCHANGED frvars

\* torrent.rs:221-229: what the read of the response adds to the piece buffer
BlockOf(o) == IF IsMsg(o, "Piece") THEN SliceFrom(o.msg.payload, 8) ELSE << >>

\* torrent.rs:221-232: read one message after a Request; a Piece's payload[8..]
\* is appended (the slice panics on a payload shorter than 8 bytes); then the
\* loop moves on to the next block
ReadBlock ==
    /\ pc = "AwaitingBlock"
    /\ \E o \in ReadOutcomes :
          /\ rx' = RxOf(o)
          /\ stream' = StreamAfter(o)
          /\ nPieceRx' = IF IsMsg(o, "Piece") THEN nPieceRx + 1 ELSE nPieceRx
          /\ IF IsMsg(o, "Piece") /\ PayloadLen(o.msg.payload) < 8
             THEN Panic /\ UNCHANGED <<piece_data, remaining_bytes, block_index>>
             ELSE /\ piece_data' = piece_data \o BlockOf(o)
                  /\ remaining_bytes' = remaining_bytes - block_length
                  /\ block_index' = block_index + 1
                  /\ pc' = "Requesting"
                  /\ honest' = (honest /\ o.kind = "msg" /\ o.msg = GoodPiece(PendingRequest))
                  /\ UNCHANGED result
    /\ UNCHANGED <<info, call, i, file, piece_index, block_length, sent, discarded>>
    /\ UNCHANGED frvars

Next ==
    \/ DownloadAllNext
    \/ DownloadAllExtend
    \/ DiscoverPeers
    \/ Connect
    \/ MakeHandshake
    \/ ReadHandshake
    \/ ReadBitfield
    \/ SendInterested
    \/ AwaitUnchoke
    \/ RequestBlock
    \/ ReadBlock

Spec == Init /\ [][Next]_vars

-----------------------------------------------------------------------------
(* The framer on its own: the peer writes frames, the bytes arrive in chunks *)
(* of any size, and decode is called on the buffer at any time.             *)

FramerInit ==
    /\ info = [length |-> 600, piece_length |-> 400, piece_count |-> 2]
    /\ call = "piece"
    /\ pc = "Discover"
    /\ i = 0
    /\ file = << >>
    /\ result = NoResult
    /\ piece_index = 0
    /\ block_index = 0
    /\ block_length = 0
    /\ remaining_bytes = 0
    /\ piece_data = << >>
    /\ sent = << >>
    /\ rx = "nothing"
    /\ stream = "open"
    /\ nPieceRx = 0
    /\ discarded = 0
    /\ honest = TRUE
    /\ wire = << >>
    /\ nFrames = 0
    /\ src = << >>
    /\ before = << >>
    /\ out = NoDecode
    /\ fn = "none"
    /\ arg = << >>
    /\ ret = Pending

FramerNext ==
    \/ PeerWrite
    \/ Arrive
    \/ DecodeCall

FramerSpec == FramerInit /\ [][FramerNext]_vars

-----------------------------------------------------------------------------
(* Functions on their own: one function is applied to an input drawn from   *)
(* a bounded set.                                                           *)

\* n bytes that differ from their neighbours
Bytes(n) == SubSeq([k \in 1..n |-> (k * 7) % 256], 1, n)

\* payloads handed to encode: none, short ones and a Request's, written out,
\* and payloads around the largest that fits a frame of MAX bytes, given by
\* their length
EncodePayloads ==
    { [head |-> h, fill |-> 0] :
        h \in { << >>, << 5 >>, << 1, 0 >>, new_request(1, 0, 16384).payload.bytes } }
      \cup { [head |-> << >>, fill |-> n] : n \in { MAX - 5, MAX - 2, MAX - 1, MAX, MAX + 1 } }

\* the inputs of encode: the item's tag and payload and a destination buffer,
\* empty or holding an Interested frame that has not been flushed
EncodeArgs ==
    { [tag |-> t, payload |-> p, dst |-> d] :
        t \in TagSet, p \in EncodePayloads, d \in { << >>, << 0, 0, 0, 1, 2 >> } }

\* the item encode is called with
ItemOf(a) == Message(a.tag, a.payload.head \o Bytes(a.payload.fill), << >>)

\* SHA-1 digests of info dictionaries
Digests ==
    { [k \in 1..20 |-> 0],
      [k \in 1..20 |-> 255],
      [k \in 1..20 |-> (k * 29 + 10) % 256],
      << 214, 159, 145, 230, 178, 174, 76, 84, 36, 104,
         209, 7, 58, 113, 212, 234, 19, 135, 154, 127 >> }

\* peer ids: ours and a peer's
PeerIds == { PEER_ID, [k \in 1..20 |-> 160 + k] }

\* what a peer sends after the connection is made: a handshake, 68 bytes that
\* are none, a handshake cut short, a handshake followed by the first bytes
\* of a Bitfield frame, or nothing
HandshakeReplies ==
    { HandshakeMessage(d, p) : d \in Digests, p \in PeerIds }
      \cup { [k \in 1..68 |-> (k * 3) % 256],
             SubSeq(HandshakeMessage([k \in 1..20 |-> 255], PEER_ID), 1, 67),
             HandshakeMessage([k \in 1..20 |-> 0], [k \in 1..20 |-> 160 + k])
                 \o << 0, 0, 0, 2, 5, 255 >>,
             << >> }

\* bytes write_all gets through: none, a part, all
Wrote == { 0, 30, 68 }

\* 6-byte entries of a compact peer list
PeerEntries ==
    { << 165, 232, 33, 77, 201, 11 >>,
      << 10, 0, 0, 1, 26, 225 >>,
      << 255, 255, 255, 255, 255, 255 >> }

RECURSIVE PeerLists(_)
\* the compact peer lists of at most n entries
PeerLists(n) ==
    IF n = 0 THEN { << >> }
    ELSE PeerLists(n - 1)
           \cup { l \o e : l \in { m \in PeerLists(n - 1) : Len(m) = 6 * (n - 1) },
                            e \in PeerEntries }

\* the `peers` byte strings a tracker may answer with: whole entries,
\* followed by 0 to 5 bytes more
TrackerPeers ==
    { l \o SubSeq(<< 178, 62, 82, 89, 201 >>, 1, extra) :
        l \in PeerLists(MaxPeers), extra \in 0..5 }

\* a dictionary as it is written: its entries <<key, value>> in order, the
\* key being any value
Entries(entries) == [type |-> "Dictionary", entries |-> entries]

\* the decimal digits of n >= 0
RECURSIVE ToDigits(_)
ToDigits(n) ==
    IF n < 10 THEN << DigitChars[n + 1] >>
    ELSE ToDigits(n \div 10) \o << DigitChars[(n % 10) + 1] >>

RECURSIVE Bencoded(_)
RECURSIVE BencodedAll(_)
\* the bencoding of a value as the decoder reads it (bendecoder.rs:51, 65,
\* 76, 96): i<digits>e, l<values>e, d<key value ...>e, <len>:<chars>
Bencoded(v) ==
    IF v.type = "Integer"
    THEN << "i" >> \o (IF v.n < 0 THEN << "-" >> \o ToDigits(0 - v.n) ELSE ToDigits(v.n))
                  \o << "e" >>
    ELSE IF v.type = "String" THEN ToDigits(Len(v.s)) \o << ":" >> \o v.s
    ELSE IF v.type = "List" THEN << "l" >> \o BencodedAll(v.items) \o << "e" >>
    ELSE << "d" >>
           \o BencodedAll([k \in 1..(2 * Len(v.entries)) |->
                              v.entries[(k + 1) \div 2][2 - (k % 2)]])
           \o << "e" >>

\* the bencodings of a sequence of values, one after the other
BencodedAll(vs) ==
    IF Len(vs) = 0 THEN << >> ELSE Bencoded(vs[1]) \o BencodedAll(SubSeq(vs, 2, Len(vs)))

\* the sequences of at most n elements of S
RECURSIVE SeqsUpTo(_, _)
SeqsUpTo(S, n) ==
    IF n = 0 THEN { << >> }
    ELSE SeqsUpTo(S, n - 1)
           \cup { Append(q, x) : q \in { r \in SeqsUpTo(S, n - 1) : Len(r) = n - 1 }, x \in S }

\* integers and strings, among them strings that hold 'e', ':' and digits
Atoms ==
    { BInteger(0), BInteger(-42), BInteger(105),
      BString(<< >>), BString(<< "e" >>), BString(<< "i", "1", ":", "e" >>) }

ItemAtoms == { BInteger(-42), BString(<< "e" >>), BString(<< "i", "1", ":", "e" >>) }

KeyAtoms == { BString(<< "e" >>), BString(<< "a", "b" >>) }

\* lists and dictionaries of atoms
Containers ==
    { BList(q) : q \in SeqsUpTo(ItemAtoms, MaxItems) }
      \cup { Entries(q) : q \in SeqsUpTo(KeyAtoms \X ItemAtoms, MaxItems) }

\* lists and dictionaries that hold lists and dictionaries
Nested ==
    LET inner == { BList(<< >>), BList(<< BInteger(-42) >>), Entries(<< >>),
                   Entries(<< << BString(<< "e" >>), BList(<< BString(<< "e" >>) >>) >> >>) }
    IN  { BList(<< c >>) : c \in inner }
          \cup { BList(<< c, BInteger(105), c >>) : c \in inner }
          \cup { Entries(<< << BString(<< "a", "b" >>), c >>,
                            << BString(<< "e" >>), BInteger(0) >> >>) : c \in inner }

\* values with a ByteString at every key position
WellFormed == Atoms \cup Containers \cup Nested

\* dictionaries with an integer, a list or a dictionary at a key position,
\* on their own, behind a well-formed entry, and inside a list
BadKeyed ==
    LET keys == { BInteger(1), BList(<< >>), BList(<< BString(<< "e" >>) >>), Entries(<< >>) }
        bad == { Entries(<< << k, v >> >>) : k \in keys, v \in ItemAtoms }
                 \cup { Entries(<< << BString(<< "a", "b" >>), BInteger(0) >>, << k, v >> >>) :
                          k \in keys, v \in ItemAtoms }
    IN  bad \cup { BList(<< BInteger(0), b >>) : b \in bad }

\* what follows the first value in the input: nothing, a second value, or
\* chars that begin no value
Followers == { BNone, BInteger(105), BString(<< "e" >>),
               BList(<< BString(<< "e" >>) >>),
               Entries(<< << BString(<< "e" >>), BInteger(0) >> >>) }

\* inputs that encode no value: a lone 'e', an unknown identifier, an
\* integer without digits or without end, a string cut short or without
\* ':', a list and a dictionary without end, a dictionary key without value
Malformed ==
    { << "e" >>, << "x" >>, << "i", "e" >>, << "i", "-", "e" >>, << "i", "1", "2" >>,
      << "5", ":", "a", "b" >>, << "3", "a", "b", "c" >>, << "l" >>, << "l", "i", "1", "e" >>,
      << "d" >>, << "d", "1", ":", "a" >>, << "d", "1", ":", "a", "e" >>,
      << "d", "i", "1", "e", "e" >> }

\* the inputs of decode_bencoded_value, with the values they were written from
BencodeArgs ==
    { [class |-> "wellformed", first |-> v, then |-> f,
       text |-> Bencoded(v) \o (IF f = BNone THEN << >> ELSE Bencoded(f))] :
         v \in WellFormed, f \in Followers }
      \cup { [class |-> "badkey", first |-> v, then |-> BNone, text |-> Bencoded(v)] :
                v \in BadKeyed }
      \cup { [class |-> "malformed", first |-> BNone, then |-> BNone, text |-> t] :
                t \in Malformed }

\* messages read_block is called on: Pieces with a block of 16384 bytes, of
\* 1 byte and of none, one whose payload stops inside the index|begin header,
\* and messages of every other tag
ReadBlockArgs ==
    { Message("Piece", ToBeBytes(0) \o ToBeBytes(16384), Run(0, 16384, 16384)),
      Message("Piece", ToBeBytes(1) \o ToBeBytes(0), Run(1, 0, 1)),
      Message("Piece", ToBeBytes(1) \o ToBeBytes(0) \o << 7 >>, << >>),
      Message("Piece", ToBeBytes(1) \o ToBeBytes(0), << >>),
      Message("Piece", ToBeBytes(1), << >>),
      new_request(1, 0, 16384) }
      \cup { Message(t, << >>, << >>) : t \in TagSet \ {"Piece"} }

CallInit ==
    /\ info = [length |-> 600, piece_length |-> 400, piece_count |-> 2]
    /\ call = "piece"
    /\ pc = "Discover"
    /\ i = 0
    /\ file = << >>
    /\ result = NoResult
    /\ piece_index = 0
    /\ block_index = 0
    /\ block_length = 0
    /\ remaining_bytes = 0
    /\ piece_data = << >>
    /\ sent = << >>
    /\ rx = "nothing"
    /\ stream = "open"
    /\ nPieceRx = 0
    /\ discarded = 0
    /\ honest = TRUE
    /\ wire = << >>
    /\ nFrames = 0
    /\ src = << >>
    /\ before = << >>
    /\ out = NoDecode
    /\ \/ fn = "encode" /\ arg \in EncodeArgs
       \/ /\ fn = "info_hash_urlencoded"
          /\ arg \in { [digest |-> d] : d \in Digests }
       \/ /\ fn = "all_peers"
          /\ arg \in { [peers |-> b] : b \in TrackerPeers }
       \/ /\ fn = "decode_bencoded_value"
          /\ arg \in BencodeArgs
       \/ /\ fn = "read_block"
          /\ arg \in ReadBlockArgs
       \/ /\ fn = "make_handshake"
          /\ arg \in { [digest |-> d, peer_id |-> p, wrote |-> w] :
                          d \in Digests, p \in PeerIds, w \in Wrote }
       \/ /\ fn = "peer_handshake"
          /\ arg \in { [digest |-> d, connects |-> c, wrote |-> w, reply |-> r] :
                          d \in Digests, c \in BOOLEAN, w \in Wrote,
                          r \in HandshakeReplies }
    /\ ret = Pending

\* MessageFramer::encode is called (Framed's send, torrent.rs:177, 212)
EncodeCall ==
    /\ fn = "encode"
    /\ ret = Pending
    /\ ret' = Encode(ItemOf(arg), arg.dst)
    /\ UNCHANGED <<fn, arg, wire, nFrames, src, before, out>>
    /\ UNCHANGED dlvars

\* the bytes encode left in the destination buffer reach a MessageFramer,
\* which decodes them
DecodeEncoded ==
    /\ fn = "encode"
    /\ ret.kind = "ok"
    /\ out = NoDecode
    /\ before' = ret.dst
    /\ out' = Decode(ret.dst)
    /\ src' = Decode(ret.dst).rest
    /\ UNCHANGED <<fn, arg, ret, wire, nFrames>>
    /\ UNCHANGED dlvars

\* Torrent::info_hash_urlencoded is called
UrlencodeCall ==
    /\ fn = "info_hash_urlencoded"
    /\ ret = Pending
    /\ ret' = [kind |-> "ok", text |-> info_hash_urlencoded(arg.digest)]
    /\ UNCHANGED <<fn, arg, wire, nFrames, src, before, out>>
    /\ UNCHANGED dlvars

\* Torrent::make_handshake is called
MakeHandshakeCall ==
    /\ fn = "make_handshake"
    /\ ret = Pending
    /\ ret' = make_handshake(arg.digest, arg.peer_id, arg.wrote)
    /\ UNCHANGED <<fn, arg, wire, nFrames, src, before, out>>
    /\ UNCHANGED dlvars

\* Torrent::peer_handshake is called
PeerHandshakeCall ==
    /\ fn = "peer_handshake"
    /\ ret = Pending
    /\ ret' = peer_handshake(arg.digest, arg.connects, arg.wrote, arg.reply)
    /\ UNCHANGED <<fn, arg, wire, nFrames, src, before, out>>
    /\ UNCHANGED dlvars

\* TrackerResponse::all_peers is called
AllPeersCall ==
    /\ fn = "all_peers"
    /\ ret = Pending
    /\ ret' = all_peers(arg.peers)
    /\ UNCHANGED <<fn, arg, wire, nFrames, src, before, out>>
    /\ UNCHANGED dlvars

\* decode_bencoded_value is called on the input; a call that never returns
\* leaves the caller waiting
BencodeCall ==
    /\ fn = "decode_bencoded_value"
    /\ ret = Pending
    /\ ret' = [first |-> decode_bencoded_value(arg.text), next |-> Pending]
    /\ UNCHANGED <<fn, arg, wire, nFrames, src, before, out>>
    /\ UNCHANGED dlvars

\* decode_bencoded_value is called on the remainder the first call returned
BencodeRemainder ==
    /\ fn = "decode_bencoded_value"
    /\ ret # Pending
    /\ ret.first.kind = "ok"
    /\ ret.first.rest # << >>
    /\ ret.next = Pending
    /\ ret' = [ret EXCEPT !.next = decode_bencoded_value(ret.first.rest)]
    /\ UNCHANGED <<fn, arg, wire, nFrames, src, before, out>>
    /\ UNCHANGED dlvars

\* Message::read_block is called
ReadBlockCall ==
    /\ fn = "read_block"
    /\ ret = Pending
    /\ ret' = read_block(arg)
    /\ UNCHANGED <<fn, arg, wire, nFrames, src, before, out>>
    /\ UNCHANGED dlvars

CallNext ==
    \/ EncodeCall
    \/ DecodeEncoded
    \/ UrlencodeCall
    \/ MakeHandshakeCall
    \/ PeerHandshakeCall
    \/ AllPeersCall
    \/ BencodeCall
    \/ BencodeRemainder
    \/ ReadBlockCall

CallSpec == CallInit /\ [][CallNext]_vars

-----------------------------------------------------------------------------
(* The Framed stream's read loop: each read of the socket appends a chunk   *)
(* to the buffer, and decode is called on the buffer until it returns no    *)
(* message or an error, which ends the stream.                              *)

RECURSIVE Drain(_, _)
\* decode called on buf until it yields no further message: the messages in
\* order, whether the last call returned the error, and the buffer left
Drain(buf, msgs) ==
    LET d == Decode(buf)
    IN  IF d.kind = "msg" THEN Drain(d.rest, Append(msgs, d.msg))
        ELSE [msgs |-> msgs, failed |-> (d.kind = "err"), rest |-> d.rest]

RECURSIVE Concat(_)
\* the bytes of frames written one after the other
Concat(frames) ==
    IF Len(frames) = 0 THEN << >> ELSE frames[1] \o Concat(SubSeq(frames, 2, Len(frames)))

ChunkInit ==
    /\ info = [length |-> 600, piece_length |-> 400, piece_count |-> 2]
    /\ call = "piece"
    /\ pc = "Discover"
    /\ i = 0
    /\ file = << >>
    /\ result = NoResult
    /\ piece_index = 0
    /\ block_index = 0
    /\ block_length = 0
    /\ remaining_bytes = 0
    /\ piece_data = << >>
    /\ sent = << >>
    /\ rx = "nothing"
    /\ stream = "open"
    /\ nPieceRx = 0
    /\ discarded = 0
    /\ honest = TRUE
    /\ fn = "framed"
    /\ arg \in { [frames |-> q] : q \in SeqsUpTo(PeerFrames, MaxFrames) }
    /\ wire = Concat(arg.frames)
    /\ nFrames = Len(arg.frames)
    /\ src = << >>
    /\ before = << >>
    /\ out = NoDecode
    /\ ret = [msgs |-> << >>, failed |-> FALSE, split |-> FALSE]

\* torrent.rs:167, the Framed stream: a read appends the next n bytes of the
\* peer's stream to the buffer and the buffer is decoded; nothing is read
\* after the error
ChunkArrives ==
    /\ fn = "framed"
    /\ ~ret.failed
    /\ \E n \in 1..Len(wire) :
          LET d == Drain(src \o SubSeq(wire, 1, n), << >>)
          IN  /\ wire' = SubSeq(wire, n + 1, Len(wire))
              /\ src' = d.rest
              /\ ret' = [msgs |-> ret.msgs \o d.msgs,
                         failed |-> d.failed,
                         split |-> (ret.split \/ (~d.failed /\ d.rest # << >>))]
    /\ UNCHANGED <<fn, arg, nFrames, before, out>>
    /\ UNCHANGED dlvars

ChunkNext == ChunkArrives

ChunkSpec == ChunkInit /\ [][ChunkNext]_vars

-----------------------------------------------------------------------------
(* Claims about download_piece and download_all. *)

\* download_piece is running (between its first statement and its return)
InPiece ==
    pc \in {"Discover", "Connecting", "Handshaking", "ReadHandshake", "AwaitingBitfield",
            "Interested", "AwaitingUnchoke", "Requesting", "AwaitingBlock"}

\* C1: whenever download_piece returns successfully for piece i, the buffer it
\* returns has exactly expected_length(i) bytes, whatever the peer sent after
\* the unchoke
C1_ReturnedLength ==
    pc = "PieceDone" => ByteLen(piece_data) = ExpectedLength(piece_index)

\* C2: while a block request is awaiting its response, a received message
\* whose tag is not Piece changes none of remaining_bytes, block_index and the
\* piece buffer, and the same block stays pending
C2_NonPieceIgnored ==
    [][(pc = "AwaitingBlock" /\ rx' \in TagSet \ {"Piece"})
          => /\ UNCHANGED <<remaining_bytes, block_index, piece_data>>
             /\ pc' = "AwaitingBlock"]_vars

\* C3: on one connection the Requests sent exceed the Piece answers received
\* by at most 1: no Request is sent while an earlier one is unanswered
C3_OneOutstanding ==
    Len(Requests(sent)) - nPieceRx <= 1

\* C4: a read error while waiting for the bitfield, for the unchoke or for a
\* block response makes download_piece return an error
C4_ReadErrorFails ==
    [][(pc \in {"AwaitingBitfield", "AwaitingUnchoke", "AwaitingBlock"} /\ rx' = "err")
          => pc' = "Failed"]_vars

\* the step order of the per-piece state machine of C5
C5_Successors(state) ==
    CASE state = "Connecting"       -> {"Handshaking"}
      [] state = "Handshaking"      -> {"ReadHandshake"}
      [] state = "ReadHandshake"    -> {"AwaitingBitfield"}
      [] state = "AwaitingBitfield" -> {"Interested"}
      [] state = "Interested"       -> {"AwaitingUnchoke"}
      [] state = "AwaitingUnchoke"  -> {"AwaitingUnchoke", "Requesting"}
      [] state = "Requesting"       -> {"AwaitingBlock", "PieceDone"}
      [] state = "AwaitingBlock"    -> {"Requesting"}
      [] OTHER                      -> {}

\* a step of the piece's state machine in which the I/O operation of the state
\* failed: the connect, a write, the handshake read, or a read of a message
C5_IoFailed ==
    \/ pc \in {"AwaitingBitfield", "AwaitingUnchoke", "AwaitingBlock"} /\ rx' = "err"
    \/ pc \in {"Connecting", "Handshaking", "ReadHandshake", "Interested", "Requesting"}
          /\ pc' = "Failed"

\* C5: the per-piece events occur only in the order connect, write handshake,
\* read handshake, read one message, send Interested, observe Unchoke, send
\* Requests, return; and from each of these states an I/O or protocol error
\* leads to Failed
C5_OrderAndFailure ==
    [][(pc \in {"Connecting", "Handshaking", "ReadHandshake", "AwaitingBitfield",
                   "Interested", "AwaitingUnchoke", "Requesting", "AwaitingBlock"})
          => IF C5_IoFailed THEN pc' = "Failed"
             ELSE pc' \in C5_Successors(pc)]_vars

\* C6: after Interested no Request is sent before an Unchoke is received; a
\* read of anything else in the interim sends nothing, leaves the piece buffer
\* alone and stays in the loop; the first Unchoke moves on to requesting
C6_UnchokeGate ==
    /\ [](pc \in {"Interested", "AwaitingUnchoke"} => Requests(sent) = << >>)
    /\ [][pc = "AwaitingUnchoke"
            => /\ sent' = sent
               /\ IF rx' = "Unchoke"
                  THEN pc' = "Requesting" /\ piece_data' = << >>
                  ELSE pc' = "AwaitingUnchoke" /\ UNCHANGED <<piece_data, dpLocals>>]_vars

C6_Witness ==
    /\ pc = "AwaitingBlock"
    /\ discarded >= 1
    /\ Len(Requests(sent)) = 1

\* C7: the k-th Request (k = 0, 1, ...) for a piece of expected length L has
\* index = piece_index, begin = k * 16384 and length = min(16384, L - k * 16384),
\* in a 12-byte payload; when the piece is returned exactly ceil(L / 16384)
\* Requests were sent, so the requested ranges are contiguous, ascending and
\* cover [0, L).  It holds whatever the peer answers, so also against a peer
\* that answers every Request with a Piece.
C7_RequestSchedule ==
    LET reqs == Requests(sent)
        L == ExpectedLength(piece_index)
    IN  /\ \A k \in 1..Len(reqs) :
              /\ Len(reqs[k].payload.bytes) = 12
              /\ reqs[k].payload.block = << >>
              /\ RequestIndex(reqs[k]) = piece_index
              /\ RequestBegin(reqs[k]) = (k - 1) * 16384
              /\ RequestLength(reqs[k]) = Min(16384, L - (k - 1) * 16384)
              /\ RequestLength(reqs[k]) > 0
        /\ Len(reqs) * 16384 < L + 16384
        /\ pc = "PieceDone" => Len(reqs) = (L + 16383) \div 16384

C7_Witness ==
    /\ pc = "PieceDone"
    /\ Len(Requests(sent)) = 4
    /\ nPieceRx = 4
    /\ RequestLength(Requests(sent)[4]) = 848

\* the metainfo invariant of the data model: piece_count = ceil(length / piece_length)
MetainfoValid ==
    info.piece_count = (info.length + info.piece_length - 1) \div info.piece_length

\* the length of piece idx of a file of info.length bytes cut every
\* info.piece_length bytes
TruePieceLength(idx) ==
    IF idx < info.piece_count - 1 THEN info.piece_length
    ELSE info.length - (info.piece_count - 1) * info.piece_length

RECURSIVE PeerPieces(_)
\* the peer's pieces 0..n-1, concatenated in index order
PeerPieces(n) ==
    IF n = 0 THEN << >> ELSE PeerPieces(n - 1) \o Run(n - 1, 0, TruePieceLength(n - 1))

RECURSIVE Coalesce(_)
\* the canonical run-length encoding of a buffer: adjacent runs that continue
\* one another in the same piece are one run
Coalesce(runs) ==
    IF Len(runs) < 2 THEN runs
    ELSE IF /\ runs[1].piece = runs[2].piece
            /\ runs[1].piece >= 0
            /\ runs[2].begin = runs[1].begin + runs[1].len
         THEN Coalesce(<< [piece |-> runs[1].piece, begin |-> runs[1].begin,
                           len |-> runs[1].len + runs[2].len] >>
                       \o SubSeq(runs, 3, Len(runs)))
         ELSE << runs[1] >> \o Coalesce(Tail(runs))

\* C8: download_all downloads pieces 0..piece_count one after another and
\* returns the concatenation of the piece buffers in index order; with a peer
\* that handshakes, sends Bitfield, then Unchoke, and answers every Request with
\* the requested Piece (and a metainfo that satisfies the data model's
\* invariant) the result is the peer's pieces in index order, length bytes in
\* all; when a piece download fails download_all returns the error and no bytes
C8_DownloadAll ==
    /\ [](call = "all" =>
            /\ InPiece \/ pc = "PieceDone" => piece_index = i /\ i < info.piece_count
            /\ pc = "AllDone" => /\ result = Ok(file)
                                 /\ i = info.piece_count
            /\ honest /\ MetainfoValid /\ pc \in {"AllLoop", "AllDone"}
                  => /\ Coalesce(file) = PeerPieces(i)
                     /\ pc = "AllDone" => ByteLen(result.bytes) = info.length
            /\ pc = "Failed" => result = Err
            /\ result.kind = "ok" => pc = "AllDone")
    /\ [][call = "all" =>
            /\ (i' # i \/ file' # file)
                  => /\ pc = "PieceDone" /\ pc' = "AllLoop"
                     /\ i' = i + 1
                     /\ file' = file \o piece_data
            /\ (InPiece /\ pc' = "Failed") => result' = Err
            /\ (pc = "AllLoop" /\ pc' = "Discover") => piece_index' = i]_vars

C8_Witness ==
    /\ call = "all"
    /\ pc = "AllDone"
    /\ honest
    /\ info = [length |-> 40000, piece_length |-> 32768, piece_count |-> 2]
    /\ result = Ok(<< [piece |-> 0, begin |-> 0, len |-> 16384],
                      [piece |-> 0, begin |-> 16384, len |-> 16384],
                      [piece |-> 1, begin |-> 0, len |-> 7232] >>)

\* C9: the expected length computed for piece i is piece_length when
\* i < piece_count - 1, and otherwise length % piece_length, or piece_length when
\* that remainder is 0 (never 0); length=1000, piece_length=400 gives 400, 400,
\* 200 and length=900, piece_length=300 gives 300 for the last piece
C9_ExpectedLength ==
    (pc = "Requesting" /\ block_index = 0)
        => /\ remaining_bytes > 0
           /\ remaining_bytes =
                 IF piece_index < info.piece_count - 1 THEN info.piece_length
                 ELSE IF info.length % info.piece_length = 0 THEN info.piece_length
                 ELSE info.length % info.piece_length
           /\ (info = [length |-> 1000, piece_length |-> 400, piece_count |-> 3])
                 => remaining_bytes = << 400, 400, 200 >>[piece_index + 1]
           /\ (info = [length |-> 900, piece_length |-> 300, piece_count |-> 3]
               /\ piece_index = 2) => remaining_bytes = 300

C9_Witness ==
    /\ pc = "Requesting"
    /\ block_index = 0
    /\ info = [length |-> 900, piece_length |-> 300, piece_count |-> 3]
    /\ piece_index = 2
    /\ remaining_bytes = 300

-----------------------------------------------------------------------------
(* Claims about MessageFramer. *)

RECURSIVE SkipKeepAlives(_)
\* buf without the keep-alives (length prefixes of 0) at its head
SkipKeepAlives(buf) ==
    IF Len(buf) >= 4 /\ SubSeq(buf, 1, 4) = << 0, 0, 0, 0 >>
    THEN SkipKeepAlives(SubSeq(buf, 5, Len(buf)))
    ELSE buf

\* the length a buffer's first four bytes declare
DeclaredLength(buf) == buf[1] * 16777216 + buf[2] * 65536 + buf[3] * 256 + buf[4]

\* C10: decode produces a message only when at least 4 + length bytes of the
\* frame are buffered; with fewer it returns no message and consumes none of
\* the frame's bytes; a message consumes exactly 4 + length bytes, its tag is
\* byte 4 and its payload the length - 1 bytes that follow, and the bytes of
\* later frames stay in the buffer
C10_WholeFrames ==
    out.kind # "nothing" =>
        LET frame == SkipKeepAlives(before)
        IN  /\ out.kind = "msg" =>
                  /\ Len(frame) >= 4
                  /\ Len(frame) >= 4 + DeclaredLength(frame)
                  /\ out.msg.tag = Tags[frame[5] + 1]
                  /\ Len(out.msg.payload.bytes) = DeclaredLength(frame) - 1
                  /\ \A k \in 1..(DeclaredLength(frame) - 1) :
                        out.msg.payload.bytes[k] = frame[5 + k]
                  /\ out.msg.payload.block = << >>
                  /\ Len(out.rest) = Len(frame) - (4 + DeclaredLength(frame))
                  /\ \A k \in 1..Len(out.rest) :
                        out.rest[k] = frame[4 + DeclaredLength(frame) + k]
            /\ (Len(frame) < 4 \/ Len(frame) < 4 + DeclaredLength(frame)) =>
                  /\ out.kind # "msg"
                  /\ out.rest = frame

\* a message with a payload was decoded from a buffer that also held bytes of
\* the next frame, after a call that had found the frame incomplete
C10_Witness ==
    /\ out.kind = "msg"
    /\ out.msg = Message("Piece", << 0, 5 >>, << >>)
    /\ before = << 0, 0, 0, 3, 7, 0, 5, 0, 0 >>
    /\ out.rest = << 0, 0 >>

RECURSIVE KeepAlives(_)
\* the number of keep-alives at the head of buf
KeepAlives(buf) ==
    IF Len(buf) >= 4 /\ buf[1] = 0 /\ buf[2] = 0 /\ buf[3] = 0 /\ buf[4] = 0
    THEN 1 + KeepAlives(SubSeq(buf, 5, Len(buf)))
    ELSE 0

\* buf without its first n bytes
Drop(buf, n) == SubSeq(buf, n + 1, Len(buf))

\* buf begins with a whole frame of a known tag and of at most MAX bytes
WholeFrameAtHead(buf) ==
    /\ Len(buf) >= 5
    /\ DeclaredLength(buf) \in 1..MAX
    /\ Len(buf) >= 4 + DeclaredLength(buf)
    /\ buf[5] \in 0..8

\* C11: a call of decode on a buffer that begins with keep-alives consumes
\* every one of them, 4 bytes each, and surfaces no message for them: when a
\* whole frame follows, the call returns that frame's message and leaves what
\* follows the frame; when nothing follows, it returns no message and leaves
\* the buffer empty; in every case no keep-alive byte stays in the buffer
C11_KeepAlive ==
    (out.kind # "nothing" /\ KeepAlives(before) >= 1) =>
        LET next == Drop(before, 4 * KeepAlives(before))
        IN  /\ Len(out.rest) <= Len(next)
            /\ out.rest = Drop(next, Len(next) - Len(out.rest))
            /\ next = << >> => (out.kind = "none" /\ out.rest = << >>)
            /\ WholeFrameAtHead(next) =>
                  /\ out.kind = "msg"
                  /\ out.msg.tag = Tags[next[5] + 1]
                  /\ out.msg.payload.bytes = SubSeq(next, 6, 4 + DeclaredLength(next))
                  /\ out.rest = Drop(next, 4 + DeclaredLength(next))

\* one call of decode passed two keep-alives and returned the Unchoke behind
\* them
C11_Witness ==
    /\ before = << 0, 0, 0, 0, 0, 0, 0, 0, 0, 0, 0, 1, 1 >>
    /\ out.kind = "msg"
    /\ out.msg.tag = "Unchoke"
    /\ out.rest = << >>
    /\ nFrames = 3
    /\ wire = << >>

\* C12: whenever the length prefix at the head of the buffer declares more
\* than MAX, decode returns the fatal error, whether only the 4 bytes of the
\* prefix or more are buffered, and reserves no space and consumes nothing
C12_OversizedPrefix ==
    (/\ out.kind # "nothing"
     /\ Len(SkipKeepAlives(before)) >= 4
     /\ DeclaredLength(SkipKeepAlives(before)) > MAX) =>
        /\ out.kind = "err"
        /\ out.reserved = 0
        /\ out.rest = SkipKeepAlives(before)

\* the conversions of a byte to a tag give the byte's own tag for 0..8 and
\* fail for every other byte
ConversionFailsOutsideTags ==
    \A b \in 0..255 :
        /\ TryFrom(b) = (IF b \in 0..8 THEN Tags[b + 1] ELSE "invalid")
        /\ TagOfByte(b) = TryFrom(b)

\* C13: a frame whose tag byte is not one of 0..8 never yields a message, and
\* once the whole frame is buffered decode returns the fatal error for it and
\* consumes nothing; the conversion of a byte to a tag fails for every byte
\* outside 0..8 and gives the byte's own tag for the bytes 0..8
C13_UnknownTag ==
    /\ out.kind # "nothing" =>
          LET frame == SkipKeepAlives(before)
          IN  (Len(frame) >= 5 /\ DeclaredLength(frame) >= 1 /\ frame[5] \notin 0..8) =>
                  /\ out.kind # "msg"
                  /\ (DeclaredLength(frame) <= MAX /\ Len(frame) >= 4 + DeclaredLength(frame)) =>
                        (out.kind = "err" /\ out.rest = frame)
    /\ ConversionFailsOutsideTags

\* decode was called on a whole frame with tag byte 9, after an Unchoke
C13_Witness ==
    /\ before = << 0, 0, 0, 1, 9 >>
    /\ out.kind = "err"
    /\ out.rest = << 0, 0, 0, 1, 9 >>
    /\ nFrames = 2

-----------------------------------------------------------------------------
(* Claims about MessageFramer::encode. *)

\* C14: a message of any tag that encode accepts, encoded into an empty
\* buffer and decoded from that buffer, comes back with the same tag and the
\* same payload, and the buffer is left empty; decode accepts every frame that
\* encode wrote
C14_RoundTrip ==
    (fn = "encode" /\ ret.kind = "ok" /\ out.kind # "nothing") =>
        /\ out.kind # "err"
        /\ arg.dst = << >> =>
              /\ out.kind = "msg"
              /\ out.msg.tag = arg.tag
              /\ out.msg.payload = ItemOf(arg).payload
              /\ out.rest = << >>

\* Request{index = 1, begin = 0, length = 16384} went through encode and
\* decode
C14_Witness ==
    /\ fn = "encode"
    /\ arg.dst = << >>
    /\ ItemOf(arg) = new_request(1, 0, 16384)
    /\ before = << 0, 0, 0, 13, 6, 0, 0, 0, 1, 0, 0, 0, 0, 0, 0, 64, 0 >>
    /\ out.kind = "msg"
    /\ RequestIndex(out.msg) = 1
    /\ RequestBegin(out.msg) = 0
    /\ RequestLength(out.msg) = 16384

\* C15: encode returns the error and leaves the destination buffer as it was
\* for every item whose frame length 1 + payload_len exceeds MAX; for every
\* other item it appends to the destination buffer the 4 bytes of
\* 1 + payload_len in big-endian order, the tag byte and the payload, in this
\* order and nothing else, and the bytes that were in the buffer stay
C15_EncodeLayout ==
    (fn = "encode" /\ ret # Pending) =>
        LET n == Len(arg.payload.head) + arg.payload.fill
            old == Len(arg.dst)
        IN  IF 1 + n > MAX
            THEN ret.kind = "err" /\ ret.dst = arg.dst
            ELSE /\ ret.kind = "ok"
                 /\ Len(ret.dst) = old + 4 + 1 + n
                 /\ \A k \in 1..old : ret.dst[k] = arg.dst[k]
                 /\ \A k \in 1..4 : ret.dst[old + k] \in 0..255
                 /\ ret.dst[old + 1] * 16777216 + ret.dst[old + 2] * 65536
                       + ret.dst[old + 3] * 256 + ret.dst[old + 4] = 1 + n
                 /\ ret.dst[old + 5] \in 0..8
                 /\ Tags[ret.dst[old + 5] + 1] = arg.tag
                 /\ SubSeq(ret.dst, old + 6, old + 5 + n) = ItemOf(arg).payload.bytes

\* encode refused a Piece with a payload of MAX bytes and left the Interested
\* frame in the destination buffer as it was
C15_Witness ==
    /\ fn = "encode"
    /\ ret.kind = "err"
    /\ arg.tag = "Piece"
    /\ arg.payload.fill = MAX
    /\ arg.dst = << 0, 0, 0, 1, 2 >>
    /\ ret.dst = << 0, 0, 0, 1, 2 >>

-----------------------------------------------------------------------------
(* Claims about the handshake and the info hash. *)

\* the two lowercase hex digits of a byte
LowerHex == << "0", "1", "2", "3", "4", "5", "6", "7",
               "8", "9", "a", "b", "c", "d", "e", "f" >>

\* text is the lowercase hex form of bytes
IsHexOf(text, bytes) ==
    /\ Len(text) = 2 * Len(bytes)
    /\ \A k \in 1..Len(bytes) :
          /\ text[2 * k - 1] = LowerHex[(bytes[k] \div 16) + 1]
          /\ text[2 * k] = LowerHex[(bytes[k] % 16) + 1]

\* C16: the handshake make_handshake writes is 68 bytes: byte 0 is 19, bytes
\* 1..20 are "BitTorrent protocol", bytes 20..28 are zero, bytes 28..48 are
\* the info hash and bytes 48..68 the given peer id; peer_handshake writes
\* this handshake with PEER_ID, reads exactly 68 bytes of what the peer sent
\* and returns bytes 48..68 of them, the remote peer id, in hex
C16_Handshake ==
    /\ (fn \in {"make_handshake", "peer_handshake"} /\ ret # Pending) =>
          LET given == IF fn = "make_handshake" THEN arg.peer_id ELSE PEER_ID
          IN  /\ (fn = "make_handshake" => (ret.kind = "ok" <=> arg.wrote = 68))
              /\ ret.kind = "ok" =>
                    /\ Len(ret.written) = 68
                    /\ ret.written[1] = 19
                    /\ \A k \in 1..19 : ret.written[1 + k] = ProtocolName[k]
                    /\ \A k \in 1..8 : ret.written[20 + k] = 0
                    /\ \A k \in 1..20 : ret.written[28 + k] = arg.digest[k]
                    /\ \A k \in 1..20 : ret.written[48 + k] = given[k]
    /\ (fn = "peer_handshake" /\ ret # Pending) =>
          /\ ret.kind = "ok" <=> (arg.connects /\ arg.wrote = 68 /\ Len(arg.reply) >= 68)
          /\ ret.kind = "ok" =>
                /\ ret.read = 68
                /\ IsHexOf(ret.peer_id, [k \in 1..20 |-> arg.reply[48 + k]])

\* peer_handshake returned the id of a peer that sent a handshake and went
\* on to send the start of its Bitfield
C16_Witness ==
    /\ fn = "peer_handshake"
    /\ ret.kind = "ok"
    /\ Len(arg.reply) = 74
    /\ ret.read = 68
    /\ Len(ret.written) = 68
    /\ SubSeq(ret.peer_id, 1, 4) = << "a", "1", "a", "2" >>

\* C20: info_hash_urlencoded gives, for each of the 20 bytes of the info
\* hash in order, a '%' followed by the two lowercase hex digits of the byte,
\* and nothing else: 60 chars, no byte left unescaped, "%00" twenty times for
\* the hash of zeros
C20_Urlencoded ==
    (fn = "info_hash_urlencoded" /\ ret # Pending) =>
        /\ ret.kind = "ok"
        /\ Len(ret.text) = 60
        /\ \A k \in 0..19 :
              /\ ret.text[3 * k + 1] = "%"
              /\ ret.text[3 * k + 2] = LowerHex[(arg.digest[k + 1] \div 16) + 1]
              /\ ret.text[3 * k + 3] = LowerHex[(arg.digest[k + 1] % 16) + 1]
        /\ (\A k \in 1..20 : arg.digest[k] = 0) =>
              \A k \in 0..19 : SubSeq(ret.text, 3 * k + 1, 3 * k + 3) = << "%", "0", "0" >>

\* the hash d69f91e6b2ae4c542468d1073a71d4ea13879a7f was encoded
C20_Witness ==
    /\ fn = "info_hash_urlencoded"
    /\ ret # Pending
    /\ arg.digest[1] = 214
    /\ SubSeq(ret.text, 1, 9) = << "%", "d", "6", "%", "9", "f", "%", "9", "1" >>
    /\ SubSeq(ret.text, 58, 60) = << "%", "7", "f" >>

-----------------------------------------------------------------------------
(* Claims about the tracker's peer list. *)

\* C19: for every peers byte string, of a length that is a multiple of 6 or
\* not, all_peers returns peers.len() / 6 peers in input order, the i-th with
\* the address bytes 6i..6i+4 and the port bytes 6i+4..6i+6 in big-endian
\* order
C19_AllPeers ==
    (fn = "all_peers" /\ ret # Pending) =>
        /\ ret.kind = "ok"
        /\ Len(ret.peers) = Len(arg.peers) \div 6
        /\ \A n \in 0..(Len(ret.peers) - 1) :
              /\ ret.peers[n + 1].addr = SubSeq(arg.peers, 6 * n + 1, 6 * n + 4)
              /\ ret.peers[n + 1].port = arg.peers[6 * n + 5] * 256 + arg.peers[6 * n + 6]

-----------------------------------------------------------------------------
(* Claims about decode_bencoded_value. *)

RECURSIVE ValueOf(_)
\* the Bencode value a written value stands for: a dictionary maps each key to
\* the value of the last entry that has the key
ValueOf(v) ==
    IF v.type = "List" THEN BList([k \in 1..Len(v.items) |-> ValueOf(v.items[k])])
    ELSE IF v.type = "Dictionary"
    THEN BDictionary(
           [key \in { v.entries[k][1].s : k \in 1..Len(v.entries) } |->
               LET last == CHOOSE k \in 1..Len(v.entries) :
                              /\ v.entries[k][1].s = key
                              /\ \A j \in (k + 1)..Len(v.entries) : v.entries[j][1].s # key
               IN  ValueOf(v.entries[last][2])])
    ELSE v

\* C17: decoding a dictionary that has an integer, a list or a dictionary at a
\* key position ends in a fatal error: the call neither returns a value nor
\* runs forever
C17_NonStringKey ==
    (fn = "decode_bencoded_value" /\ arg.class = "badkey" /\ ret # Pending) =>
        ret.first.kind = "panic"

\* C18: on a well-formed input decode_bencoded_value returns the first value
\* and the remainder: the remainder is a suffix of the input, what was
\* consumed is exactly the encoding of the first value, closing 'e' of a list
\* or dictionary included, the two together are the input, and decoding the
\* remainder gives the value that follows
C18_Remainder ==
    (fn = "decode_bencoded_value" /\ arg.class = "wellformed" /\ ret # Pending) =>
        LET consumed == Len(arg.text) - Len(ret.first.rest)
        IN  /\ ret.first.kind = "ok"
            /\ ret.first.value = ValueOf(arg.first)
            /\ consumed \in 1..Len(arg.text)
            /\ ret.first.rest = SubSeq(arg.text, consumed + 1, Len(arg.text))
            /\ SubSeq(arg.text, 1, consumed) = Bencoded(arg.first)
            /\ SubSeq(arg.text, 1, consumed) \o ret.first.rest = arg.text
            /\ arg.first.type \in {"List", "Dictionary"} => arg.text[consumed] = "e"
            /\ (arg.then # BNone /\ ret.next # Pending) =>
                  /\ ret.next.kind = "ok"
                  /\ ret.next.value = ValueOf(arg.then)
                  /\ ret.next.rest = << >>

\* a list that holds a dictionary that holds a list was decoded from an input
\* in which a dictionary follows it, and the dictionary was decoded from the
\* remainder
C18_Witness ==
    /\ fn = "decode_bencoded_value"
    /\ ret # Pending
    /\ arg.text = << "l", "d", "1", ":", "e", "l", "1", ":", "e", "e", "e", "e",
                     "d", "1", ":", "e", "i", "0", "e", "e" >>
    /\ ret.first.kind = "ok"
    /\ ret.first.rest = << "d", "1", ":", "e", "i", "0", "e", "e" >>
    /\ ret.next # Pending
    /\ ret.next.kind = "ok"
    /\ ret.next.value.type = "Dictionary"

-----------------------------------------------------------------------------
(* Claims about the end of the peer's stream, the block of a Piece and the   *)
(* piece hash.                                                               *)

\* C21: when the read that waits for the Unchoke or for a block response
\* finds the peer's stream ended, download_piece stops there and returns an
\* error: it does not read or loop on, and it does not go on to a success
C21_StreamEndFails ==
    [][(pc \in {"AwaitingUnchoke", "AwaitingBlock"} /\ rx' = "none" /\ stream' = "eof")
          => (pc' = "Failed" /\ result' = Err)]_vars

\* C22: for every Piece message read_block returns the payload bytes after
\* the 8-byte index|begin header, the bytes download_piece appends to the
\* piece buffer for the same message; for every other tag it returns an error
C22_ReadBlock ==
    (fn = "read_block" /\ ret # Pending) =>
        IF arg.tag = "Piece"
        THEN PayloadLen(arg.payload) >= 8 =>
                /\ ret.kind = "ok"
                /\ ByteLen(ret.bytes) = PayloadLen(arg.payload) - 8
                /\ ret.bytes = BlockOf([kind |-> "msg", msg |-> arg])
        ELSE ret.kind = "err"

\* sha1(bytes) == pieces[20 * idx .. 20 * idx + 20]: the metainfo holds the
\* SHA-1 of each piece of the file, and only the piece's own bytes hash to it
HashMatches(bytes, idx) == Coalesce(bytes) = Run(idx, 0, TruePieceLength(idx))

\* C23: every piece buffer download_piece returns as a success for piece i
\* hashes to the i-th piece hash of the metainfo; bytes that do not are never
\* returned
C23_PieceVerified ==
    pc = "PieceDone" => HashMatches(piece_data, piece_index)

-----------------------------------------------------------------------------
(* Claims about the chunks the peer's bytes arrive in. *)

\* C24: however the peer's byte stream is cut into the chunks that are
\* appended to the buffer, with the buffer decoded after each append, the
\* messages produced so far, whether the fatal error has been produced (and so
\* after which message), and the bytes left in the buffer are those that
\* decoding the bytes delivered so far in one piece gives
C24_ChunkIndependent ==
    fn = "framed" =>
        LET all == Concat(arg.frames)
            whole == Drain(SubSeq(all, 1, Len(all) - Len(wire)), << >>)
        IN  /\ ret.msgs = whole.msgs
            /\ ret.failed = whole.failed
            /\ src = whole.rest

\* a Piece and an Unchoke were decoded from a stream that arrived with a
\* frame cut in two
C24_Witness ==
    /\ fn = "framed"
    /\ arg.frames = << << 0, 0, 0, 3, 7, 0, 5 >>, << 0, 0, 0, 0 >>, << 0, 0, 0, 1, 1 >> >>
    /\ wire = << >>
    /\ ret.split
    /\ ~ret.failed
    /\ Len(ret.msgs) = 2
    /\ ret.msgs[2].tag = "Unchoke"

====
